---- MODULE Spec2Model ----
(***************************************************************************)
(* Model of the real-time chat client core of                              *)
(* typescript-mastery/06-projects/03-chat-application/index.ts:            *)
(* ChatWebSocketClient (transport handle, emit / handleMessage dispatch),  *)
(* MessageService (bounded per-channel message cache, typing presence with *)
(* expiry timers) as wired together by the ChatApplication constructor.    *)
(*                                                                         *)
(* Message fields that no modelled handler reads or writes (type,          *)
(* timestamp, attachments, metadata) are left out of the message records.  *)
(***************************************************************************)
EXTENDS Integers, Sequences, FiniteSets, TLC

(***************************************************************************)
(* Bounds of the model and constants of the program                        *)
(***************************************************************************)

\* `channelMessages.length > 100` / `splice(0, length - 100)`
CacheCap == 100

\* `setTimeout(..., 3000)` of addTypingUser, in milliseconds
TypingTimeoutMs == 3000

\* The model's clock advances in steps of 1/TicksPerTimeout of the typing timeout
TicksPerTimeout == 3

TickMs == TypingTimeoutMs \div TicksPerTimeout

\* At most this many message:receive frames are delivered in one behaviour
MaxReceives == 1

\* At most this many frames are in flight from the client to the server
MaxInFlight == 1

\* At most this many sockets are created in one behaviour
MaxSockets == 1

\* At most this many timeouts are pending at once
MaxTimers == 2

\* At most this many sockets reach the open state in one behaviour
MaxOpens == 1

\* The application calls disconnect() at most this many times in one behaviour
MaxDisconnects == 1

\* The application calls on() at most this many times in one behaviour
MaxRegistrations == 2

\* `private maxReconnectAttempts = 5`
maxReconnectAttempts == 5

\* `private reconnectDelay = 1000`, in milliseconds
reconnectDelay == 1000

\* `this.ws.close(1000)` / `event.code !== 1000`
NormalClosure == 1000

\* The codes of a close event: normal closure, and 1006 for every other closure
CloseCodes == {NormalClosure, 1006}

Channels == {"c1", "c2"}

\* `currentUserId` handed to the MessageService constructor
currentUserId == "me"

RemoteUsers == {"u1"}

Users == {currentUserId} \cup RemoteUsers

\* Server-assigned message ids
MessageIds == {1, 2}

\* Message contents, as sequences of characters
Contents == { <<"h", "i">>, <<"@", "a", "b", " ", "@", " ", "@", "b">> }

Emojis == {"+1"}

\* UserStatus values the local user sets and the server reports
Statuses == {"away"}

ChannelNames == {"general", "renamed"}

\* The userId of the channel:join and channel:leave payloads of joinChannel
\* and leaveChannel: `userId: ''`
NoUser == ""

\* `editedAt?: Date` when absent
NoDate == "undefined"

\* The value of `new Date()`; the model does not distinguish instants
NewDate == "Date"

(***************************************************************************)
(* JavaScript Map, in insertion order: a sequence of [key, val] entries    *)
(***************************************************************************)

MapHas(m, k) == \E i \in 1..Len(m) : m[i].key = k

MapIndex(m, k) == CHOOSE i \in 1..Len(m) : m[i].key = k

MapGet(m, k) == m[MapIndex(m, k)].val

\* Map.prototype.set: an existing key keeps its place in the iteration order
MapSet(m, k, v) ==
  IF MapHas(m, k)
    THEN [m EXCEPT ![MapIndex(m, k)] = [key |-> k, val |-> v]]
    ELSE Append(m, [key |-> k, val |-> v])

(***************************************************************************)
(* Array helpers                                                           *)
(***************************************************************************)

\* messages.findIndex(m => m.id === messageId), 1-based; 0 stands for -1
findIndex(messages, messageId) ==
  IF \E i \in 1..Len(messages) : messages[i].id = messageId
    THEN CHOOSE i \in 1..Len(messages) :
           /\ messages[i].id = messageId
           /\ \A j \in 1..(i - 1) : messages[j].id # messageId
    ELSE 0

(***************************************************************************)
(* MessageService.extractMentions: all matches of /@(\w+)/g, left to right *)
(***************************************************************************)

WordChars == {"a", "b", "h", "i", "_"}

\* Length of the maximal run of \w characters of content that starts at i
RECURSIVE WordRun(_, _)
WordRun(content, i) ==
  IF i <= Len(content) /\ content[i] \in WordChars
    THEN 1 + WordRun(content, i + 1)
    ELSE 0

RECURSIVE MentionsFrom(_, _)
MentionsFrom(content, i) ==
  IF i > Len(content) THEN << >>
  ELSE IF content[i] = "@" /\ WordRun(content, i + 1) > 0
    THEN << SubSeq(content, i + 1, i + WordRun(content, i + 1)) >>
           \o MentionsFrom(content, i + 1 + WordRun(content, i + 1))
    ELSE MentionsFrom(content, i + 1)

extractMentions(content) == MentionsFrom(content, 1)

(***************************************************************************)
(* State                                                                   *)
(***************************************************************************)

VARIABLES
  sockets,        \* readyState of every WebSocket created by connect(), by creation
  ws,             \* ChatWebSocketClient.ws: an index of sockets, 0 for null
  isConnected,    \* ChatWebSocketClient.isConnected
  reconnectAttempts, \* ChatWebSocketClient.reconnectAttempts
  pingInterval,   \* ChatWebSocketClient.pingInterval: an interval id, 0 for null
  intervals,      \* the ids of the setInterval timers of startPing not yet cleared
  conns,          \* per socket: who called the connect() that created it, the
                  \* state of the promise of that call, whether the socket has
                  \* been open
  reconnectTimers, \* pending setTimeout callbacks of handleReconnect, by creation
  connLog,        \* history since the last onopen: the retries scheduled by
                  \* handleReconnect, the connection attempts its timeouts have
                  \* made, the MAX_RECONNECT_ATTEMPTS errors emitted; and the
                  \* number of calls of disconnect(), and whether one of them
                  \* found a retry scheduled with no connect() by the
                  \* application since
  messageCache,   \* MessageService.messageCache: Map channelId -> Message[]
  typingUsers,    \* MessageService.typingUsers: Map channelId -> Set of user ids
  timers,         \* pending setTimeout callbacks of addTypingUser, by creation,
                  \* each with the history of whether a typing:stop for its
                  \* pair was dispatched since it was scheduled
  awaitingEcho,   \* server side: message:send payloads received and not yet echoed
  usedIds,        \* server side: the message ids broadcast so far
  nReceived,      \* history: number of message:receive frames delivered
  startAge,       \* history: per (channel, remote user), the time since the last
                  \* typing:start with no typing:stop after it, up to the timeout
  appendRun,      \* history: per channel, the messages appended since the last
                  \* edit or delete event (or since the cache shown by Init)
  listeners,      \* ChatWebSocketClient.listeners: Map event -> Set of listeners,
                  \* each Set as the sequence of its elements in insertion order
  registrations,  \* the functions returned by the calls of on() the application
                  \* has made, by call: the event and the listener each holds,
                  \* and the history of whether it has been called
  channels,       \* ChannelService.channels: Map channelId -> Channel
  currentChannelId, \* ChannelService.currentChannelId, "" for null
  dispatched,     \* history: the listeners the last step invoked, in order, those
                  \* of them whose error was passed to console.error, and whether
                  \* an error reached the caller of emit or handleMessage
  last            \* history: the last step, the event it dispatched (with the
                  \* user of a typing event) and the event names of the frames
                  \* it sent to the transport

vars == << sockets, ws, isConnected, reconnectAttempts, pingInterval,
           intervals, conns, reconnectTimers, connLog,
           messageCache, typingUsers, timers, awaitingEcho, usedIds, nReceived,
           startAge, appendRun, listeners, registrations, channels,
           currentChannelId, dispatched, last >>

connVars == << sockets, ws, isConnected, reconnectAttempts, pingInterval,
               intervals, conns, reconnectTimers, connLog >>

cacheVars == << messageCache, appendRun >>

typingVars == << typingUsers, timers, startAge >>

serverVars == << awaitingEcho, usedIds, nReceived >>

registryVars == << listeners, registrations >>

channelVars == << channels, currentChannelId >>

(***************************************************************************)
(* Messages                                                                *)
(***************************************************************************)

\* The payload sendMessage builds: Omit<Message, 'id' | 'timestamp'>
NewMessage(channelId, content) ==
  [ content   |-> content,
    senderId  |-> currentUserId,
    channelId |-> channelId,
    reactions |-> << >>,
    mentions  |-> extractMentions(content) ]

\* A Message as the server broadcasts it: the sender's payload plus its id
ServerMessage(id, senderId, channelId, content) ==
  [ id        |-> id,
    content   |-> content,
    senderId  |-> senderId,
    channelId |-> channelId,
    editedAt  |-> NoDate,
    reactions |-> << >>,
    mentions  |-> extractMentions(content) ]

\* The i-th message of a channel history received before the behaviour starts
OlderMessage(channelId, i) ==
  ServerMessage(0 - i, "u1", channelId, <<"h", "i">>)

(***************************************************************************)
(* MessageService: the message cache                                       *)
(***************************************************************************)

\* this.messageCache.get(channelId) || []
MessagesIn(cache, channelId) ==
  IF MapHas(cache, channelId) THEN MapGet(cache, channelId) ELSE << >>

getChannelMessages(channelId) == MessagesIn(messageCache, channelId)

\* A bug: the cap is never applied
addMessageToCache_NoCap(cache, message) ==
  MapSet(cache, message.channelId,
         Append(MessagesIn(cache, message.channelId), message))

\* A bug: the splice removes from the tail instead of the head
addMessageToCache_DropNewest(cache, message) ==
  LET channelMessages ==
        Append(MessagesIn(cache, message.channelId), message)
  IN MapSet(cache, message.channelId,
            IF Len(channelMessages) > CacheCap
              THEN SubSeq(channelMessages, 1, CacheCap)
              ELSE channelMessages)

addMessageToCache(cache, message) ==
  LET channelMessages ==
        Append(MessagesIn(cache, message.channelId), message)
  IN MapSet(cache, message.channelId,
            IF Len(channelMessages) > CacheCap
              THEN SubSeq(channelMessages,
                          Len(channelMessages) - CacheCap + 1, Len(channelMessages))
              ELSE channelMessages)

\* A bug: editedAt is not part of the merged copy
MergeUpdates_ContentOnly(message, updates) ==
  [message EXCEPT !.content = updates.content]

\* { ...messages[messageIndex], ...updates } with updates = { content, editedAt }
MergeUpdates(message, updates) ==
  [message EXCEPT !.content = updates.content, !.editedAt = updates.editedAt]

\* The entries of cache, in iteration order, from entry e on: the first whose
\* array holds messageId has that message replaced, and the loop breaks
RECURSIVE UpdateFrom(_, _, _, _)
UpdateFrom(cache, e, messageId, updates) ==
  IF e > Len(cache) THEN cache
  ELSE LET messages     == cache[e].val
           messageIndex == findIndex(messages, messageId)
       IN IF messageIndex # 0
            THEN MapSet(cache, cache[e].key,
                        SubSeq(messages, 1, messageIndex - 1)
                          \o << MergeUpdates(messages[messageIndex], updates) >>
                          \o SubSeq(messages, messageIndex + 1, Len(messages)))
            ELSE UpdateFrom(cache, e + 1, messageId, updates)

updateMessageInCache(cache, messageId, updates) ==
  UpdateFrom(cache, 1, messageId, updates)

\* A bug: no check that the channel is tracked
removeMessageFromCache_NoGuard(cache, channelId, messageId) ==
  LET Keep(m) == m.id # messageId
  IN MapSet(cache, channelId, SelectSeq(MessagesIn(cache, channelId), Keep))

removeMessageFromCache(cache, channelId, messageId) ==
  IF MapHas(cache, channelId)
    THEN LET Keep(m) == m.id # messageId
         IN MapSet(cache, channelId, SelectSeq(MapGet(cache, channelId), Keep))
    ELSE cache

(***************************************************************************)
(* MessageService: typing presence                                         *)
(***************************************************************************)

getTypingUsers(channelId) ==
  IF MapHas(typingUsers, channelId) THEN MapGet(typingUsers, channelId) ELSE {}

\* A bug: no expiry is scheduled
addTypingUser_NoTimeout(typing, channelId, userId) ==
  [ typingUsers |->
      MapSet(typing.typingUsers, channelId,
             (IF MapHas(typing.typingUsers, channelId)
                THEN MapGet(typing.typingUsers, channelId) ELSE {}) \cup {userId}),
    timers |-> typing.timers ]

\* typing is [typingUsers, timers]; the result is their value after the call
addTypingUser(typing, channelId, userId) ==
  [ typingUsers |->
      MapSet(typing.typingUsers, channelId,
             (IF MapHas(typing.typingUsers, channelId)
                THEN MapGet(typing.typingUsers, channelId) ELSE {}) \cup {userId}),
    timers |->
      Append(typing.timers, [ channelId |-> channelId, userId |-> userId,
                              remaining |-> TypingTimeoutMs, stopped |-> FALSE ]) ]

removeTypingUser(typing, channelId, userId) ==
  IF MapHas(typing, channelId)
    THEN MapSet(typing, channelId, MapGet(typing, channelId) \ {userId})
    ELSE typing

(***************************************************************************)
(* MessageService.setupEventListeners: the listener of each event          *)
(***************************************************************************)

Pairs == Channels \X RemoteUsers

\* The channel whose array updateMessageInCache replaces, if any
EditedChannels(cache, messageId) ==
  LET Holds(e) == \E i \in 1..Len(cache[e].val) : cache[e].val[i].id = messageId
  IN { cache[e].key : e \in { f \in 1..Len(cache) :
                                Holds(f) /\ \A g \in 1..(f - 1) : ~Holds(g) } }

onMessageReceive(data) ==
  /\ messageCache' = addMessageToCache(messageCache, data.message)
  /\ appendRun' = [appendRun EXCEPT ![data.message.channelId] = Append(@, data.message)]
  /\ UNCHANGED << typingVars, channels >>

onMessageEdit(data) ==
  /\ messageCache' = updateMessageInCache(messageCache, data.messageId,
                        [content |-> data.content, editedAt |-> NewDate])
  /\ appendRun' = [c \in Channels |->
                     IF c \in EditedChannels(messageCache, data.messageId)
                       THEN << >> ELSE appendRun[c]]
  /\ UNCHANGED << typingVars, channels >>

onMessageDelete(data) ==
  /\ messageCache' = removeMessageFromCache(messageCache, data.channelId, data.messageId)
  /\ appendRun' = [appendRun EXCEPT ![data.channelId] = << >>]
  /\ UNCHANGED << typingVars, channels >>

\* A bug: the listener does not skip the local user
onTypingStart_NoSelfCheck(data) ==
  LET after == addTypingUser([typingUsers |-> typingUsers, timers |-> timers],
                             data.channelId, data.userId)
  IN /\ typingUsers' = after.typingUsers
     /\ timers' = after.timers
     /\ startAge' = [p \in Pairs |->
                       IF p = << data.channelId, data.userId >> THEN 0 ELSE startAge[p]]
     /\ UNCHANGED << cacheVars, channels >>

onTypingStart(data) ==
  IF data.userId # currentUserId
    THEN LET after == addTypingUser([typingUsers |-> typingUsers, timers |-> timers],
                                    data.channelId, data.userId)
         IN /\ typingUsers' = after.typingUsers
            /\ timers' = after.timers
            /\ startAge' = [startAge EXCEPT ![<< data.channelId, data.userId >>] = 0]
            /\ UNCHANGED << cacheVars, channels >>
    ELSE UNCHANGED << cacheVars, typingVars, channels >>

onTypingStop(data) ==
  /\ typingUsers' = removeTypingUser(typingUsers, data.channelId, data.userId)
  /\ startAge' = [p \in Pairs |->
                    IF p = << data.channelId, data.userId >>
                      THEN TypingTimeoutMs ELSE startAge[p]]
  /\ timers' = [i \in 1..Len(timers) |->
                  IF << timers[i].channelId, timers[i].userId >>
                       = << data.channelId, data.userId >>
                    THEN [timers[i] EXCEPT !.stopped = TRUE] ELSE timers[i]]
  /\ UNCHANGED << cacheVars, channels >>

(***************************************************************************)
(* ChannelService.setupEventListeners: the listener of each event          *)
(***************************************************************************)

\* Array.prototype.includes
includes(array, x) == \E i \in 1..Len(array) : array[i] = x

\* { ...channel, ...changes, updatedAt: new Date() }, with changes a function
\* from the names of the fields it holds to their values
MergeChanges(channel, changes) ==
  [ id        |-> channel.id,
    name      |-> IF "name" \in DOMAIN changes THEN changes["name"] ELSE channel.name,
    memberIds |-> IF "memberIds" \in DOMAIN changes
                    THEN changes["memberIds"] ELSE channel.memberIds,
    updatedAt |-> NewDate ]

onChannelCreate(data) ==
  /\ channels' = MapSet(channels, data.channel.id, data.channel)
  /\ UNCHANGED << cacheVars, typingVars >>

onChannelUpdate(data) ==
  /\ channels' = IF MapHas(channels, data.channelId)
                   THEN MapSet(channels, data.channelId,
                               MergeChanges(MapGet(channels, data.channelId),
                                            data.changes))
                   ELSE channels
  /\ UNCHANGED << cacheVars, typingVars >>

\* A bug: the user id is pushed without the check for membership
onChannelJoin_NoCheck(data) ==
  /\ channels' = IF MapHas(channels, data.channelId)
                   THEN MapSet(channels, data.channelId,
                               [MapGet(channels, data.channelId) EXCEPT
                                  !.memberIds = Append(@, data.userId)])
                   ELSE channels
  /\ UNCHANGED << cacheVars, typingVars >>

onChannelJoin(data) ==
  /\ channels' = IF /\ MapHas(channels, data.channelId)
                      /\ ~includes(MapGet(channels, data.channelId).memberIds,
                                   data.userId)
                   THEN MapSet(channels, data.channelId,
                               [MapGet(channels, data.channelId) EXCEPT
                                  !.memberIds = Append(@, data.userId)])
                   ELSE channels
  /\ UNCHANGED << cacheVars, typingVars >>

onChannelLeave(data) ==
  /\ channels' = IF MapHas(channels, data.channelId)
                   THEN MapSet(channels, data.channelId,
                               [MapGet(channels, data.channelId) EXCEPT
                                  !.memberIds =
                                     SelectSeq(@, LAMBDA id : id # data.userId)])
                   ELSE channels
  /\ UNCHANGED << cacheVars, typingVars >>

\* The state changes of the listeners the services register for an event.  The
\* MessageService registers none for message:send and message:reaction:*, and
\* the listeners of the ChatApplication write to the console only.
Listeners(type, data) ==
  CASE type = "message:receive" -> onMessageReceive(data)
    [] type = "message:edit"    -> onMessageEdit(data)
    [] type = "message:delete"  -> onMessageDelete(data)
    [] type = "typing:start"    -> onTypingStart(data)
    [] type = "typing:stop"     -> onTypingStop(data)
    [] type = "channel:create"  -> onChannelCreate(data)
    [] type = "channel:update"  -> onChannelUpdate(data)
    [] type = "channel:join"    -> onChannelJoin(data)
    [] type = "channel:leave"   -> onChannelLeave(data)
    [] OTHER                    -> UNCHANGED << cacheVars, typingVars, channels >>

(***************************************************************************)
(* ChatWebSocketClient: the registry of listeners, on and off              *)
(***************************************************************************)

\* The listeners the application registers with on(): L1 returns, L2 throws
AppListeners == {"L1", "L2"}

Throwing == {"L2"}

\* The events the application registers its listeners for
AppEvents == {"user:status:change", "connected"}

\* Set.prototype.add, on a Set as the sequence of its elements
SetAdd(set, x) ==
  IF \E i \in 1..Len(set) : set[i] = x THEN set ELSE Append(set, x)

\* Set.prototype.delete
SetDelete(set, x) == SelectSeq(set, LAMBDA y : y # x)

\* this.listeners.get(event) as forEach visits it; << >> when there is no Set
EventListeners(map, event) ==
  IF MapHas(map, event) THEN MapGet(map, event) ELSE << >>

\* A bug: on() replaces the Set of the event
Registered_Overwrite(map, event, listener) ==
  MapSet(map, event, << listener >>)

\* The registry after on(event, listener)
Registered(map, event, listener) ==
  IF MapHas(map, event)
    THEN MapSet(map, event, SetAdd(MapGet(map, event), listener))
    ELSE MapSet(map, event, << listener >>)

\* The registry after off(event, listener)
off(map, event, listener) ==
  IF MapHas(map, event)
    THEN MapSet(map, event, SetDelete(MapGet(map, event), listener))
    ELSE map

\* The registry after the constructors of the MessageService, the
\* ChannelService and the ChatApplication: one listener for each event
ServiceListeners ==
  << [key |-> "message:receive", val |-> << "onMessageReceive" >>],
     [key |-> "message:edit",    val |-> << "onMessageEdit" >>],
     [key |-> "message:delete",  val |-> << "onMessageDelete" >>],
     [key |-> "typing:start",    val |-> << "onTypingStart" >>],
     [key |-> "typing:stop",     val |-> << "onTypingStop" >>],
     [key |-> "channel:create",  val |-> << "onChannelCreate" >>],
     [key |-> "channel:update",  val |-> << "onChannelUpdate" >>],
     [key |-> "channel:join",    val |-> << "onChannelJoin" >>],
     [key |-> "channel:leave",   val |-> << "onChannelLeave" >>],
     [key |-> "connected",       val |-> << "logConnected" >>],
     [key |-> "error",           val |-> << "logError" >>],
     [key |-> "reconnect",       val |-> << "logReconnect" >>] >>

\* No listener has been invoked
NoRun == [ invoked |-> << >>, reported |-> << >>, thrown |-> FALSE ]

\* A bug: the call of the listener is not in a try block, so the first error
\* ends the loop and reaches the caller
RECURSIVE forEach_NoCatch(_, _, _)
forEach_NoCatch(eventListeners, k, run) ==
  IF k > Len(eventListeners) THEN run
  ELSE IF eventListeners[k] \in Throwing
    THEN [run EXCEPT !.invoked = Append(@, eventListeners[k]), !.thrown = TRUE]
    ELSE forEach_NoCatch(eventListeners, k + 1,
                         [run EXCEPT !.invoked = Append(@, eventListeners[k])])

\* eventListeners.forEach(async (listener) => { try { await listener(data) }
\* catch (error) { console.error(...) } }), from the k-th listener on
RECURSIVE forEach(_, _, _)
forEach(eventListeners, k, run) ==
  IF k > Len(eventListeners) THEN run
  ELSE forEach(eventListeners, k + 1,
               [run EXCEPT !.invoked = Append(@, eventListeners[k]),
                           !.reported = IF eventListeners[k] \in Throwing
                                          THEN Append(@, eventListeners[k]) ELSE @])

\* The local listeners of an event are notified
Dispatch(type, data) ==
  /\ dispatched' = forEach(EventListeners(listeners, type), 1, NoRun)
  /\ Listeners(type, data)
  /\ UNCHANGED registryVars

\* A step that calls neither emit nor handleMessage
NoDispatch == dispatched' = NoRun

(***************************************************************************)
(* ChatWebSocketClient: connect, emit, handleMessage                       *)
(***************************************************************************)

\* this.ws && this.ws.readyState === WebSocket.OPEN
WsOpen == ws # 0 /\ sockets[ws] = "OPEN"

\* Some socket of the client can deliver a frame to its onmessage handler
SomeOpen == \E s \in 1..Len(sockets) : sockets[s] = "OPEN"

\* The user a typing or membership event is about, for the record of the last
\* step
TypingUser(type, data) ==
  IF type \in {"typing:start", "typing:stop", "channel:join", "channel:leave"}
    THEN data.userId ELSE ""

\* A bug: the frame is passed to ws.send whatever the state of the socket
emit_Unchecked(type, data) ==
  /\ last' = [ op |-> "emit", type |-> type, userId |-> TypingUser(type, data),
               sent |-> << type >> ]
  /\ awaitingEcho' = IF type = "message:send"
                       THEN Append(awaitingEcho, data.message) ELSE awaitingEcho
  /\ Dispatch(type, data)
  /\ UNCHANGED << connVars, usedIds, nReceived >>

\* emit: ws.send when open, then the local listeners.  A message:send frame that
\* went out waits at the server for its echo.  The caller may go on to change
\* the state of its service.
emit(type, data) ==
  /\ last' = [ op |-> "emit", type |-> type, userId |-> TypingUser(type, data),
               sent |-> IF WsOpen THEN << type >> ELSE << >> ]
  /\ awaitingEcho' = IF WsOpen /\ type = "message:send"
                       THEN Append(awaitingEcho, data.message) ELSE awaitingEcho
  /\ Dispatch(type, data)
  /\ UNCHANGED << connVars, usedIds, nReceived >>

\* A bug: the frame is dispatched with emit, which forwards it to the transport
handleMessage_Echo(type, data) ==
  /\ last' = [ op |-> "handleMessage", type |-> type,
               userId |-> TypingUser(type, data),
               sent |-> IF WsOpen THEN << type >> ELSE << >> ]
  /\ Dispatch(type, data)
  /\ UNCHANGED << connVars, currentChannelId >>

\* handleMessage on a frame { type, data }: the local listeners only
handleMessage(type, data) ==
  /\ last' = [ op |-> "handleMessage", type |-> type,
               userId |-> TypingUser(type, data), sent |-> << >> ]
  /\ Dispatch(type, data)
  /\ UNCHANGED << connVars, currentChannelId >>

\* The record of a socket that connect() has just created
NewConn(origin) ==
  [ origin |-> origin, promise |-> "pending", opened |-> FALSE ]

\* The sockets created since the initial state
Created == { s \in 1..Len(sockets) : conns[s].origin # "createChatApp" }

\* connect() called by the application
Connect ==
  /\ Cardinality(Created) < MaxSockets
  /\ sockets' = Append(sockets, "CONNECTING")
  /\ ws' = Len(sockets) + 1
  /\ conns' = Append(conns, NewConn("connect"))
  /\ connLog' = [connLog EXCEPT !.retryAtDisconnect = FALSE]
  /\ last' = [ op |-> "connect", type |-> "", userId |-> "", sent |-> << >> ]
  /\ UNCHANGED << isConnected, reconnectAttempts, pingInterval, intervals,
                  reconnectTimers, cacheVars, typingVars, serverVars >>
  /\ NoDispatch
  /\ UNCHANGED << registryVars, channelVars >>

\* createChatApp: the application calls connect() once
ConnectOnce == ws = 0 /\ Connect

\* The sockets that have opened since the initial state
Opened == { s \in Created : conns[s].opened }

\* The log when reconnectAttempts is set to 0
NoRetries(log) ==
  [log EXCEPT !.scheduled = << >>, !.made = 0, !.maxErrors = 0]

\* A bug: the attempt counter is not reset
OnOpen_NoReset(s) ==
  /\ sockets[s] = "CONNECTING"
  /\ Cardinality(Opened) < MaxOpens
  /\ sockets' = [sockets EXCEPT ![s] = "OPEN"]
  /\ isConnected' = TRUE
  /\ pingInterval' = s
  /\ intervals' = intervals \cup {s}
  /\ conns' = [conns EXCEPT ![s].promise = "resolved", ![s].opened = TRUE]
  /\ last' = [ op |-> "onopen", type |-> "", userId |-> "", sent |-> << >> ]
  /\ UNCHANGED << ws, reconnectAttempts, reconnectTimers, connLog,
                  cacheVars, typingVars, serverVars >>
  /\ NoDispatch
  /\ UNCHANGED << registryVars, channelVars >>

\* ws.onopen of socket s; startPing keeps the id of a new interval, here s
OnOpen(s) ==
  /\ sockets[s] = "CONNECTING"
  /\ Cardinality(Opened) < MaxOpens
  /\ sockets' = [sockets EXCEPT ![s] = "OPEN"]
  /\ isConnected' = TRUE
  /\ reconnectAttempts' = 0
  /\ pingInterval' = s
  /\ intervals' = intervals \cup {s}
  /\ conns' = [conns EXCEPT ![s].promise = "resolved", ![s].opened = TRUE]
  /\ connLog' = NoRetries(connLog)
  /\ last' = [ op |-> "onopen", type |-> "", userId |-> "", sent |-> << >> ]
  /\ UNCHANGED << ws, reconnectTimers, cacheVars, typingVars, serverVars >>
  /\ NoDispatch
  /\ UNCHANGED << registryVars, channelVars >>

\* The client as the handlers of a socket see and change it: the fields of the
\* ChatWebSocketClient, the promise of the connect() call that created the
\* socket and who made the call, whether this.ws is open, the events the
\* handlers have passed to ws.send in this step and the listeners their calls
\* of emit have invoked
HandlerState(s) ==
  [ isConnected |-> isConnected,
    reconnectAttempts |-> reconnectAttempts,
    pingInterval |-> pingInterval,
    intervals |-> intervals,
    reconnectTimers |-> reconnectTimers,
    connLog |-> connLog,
    promise |-> conns[s].promise,
    origin |-> conns[s].origin,
    open |-> ws # 0 /\ ws # s /\ sockets[ws] = "OPEN",
    sent |-> << >>,
    dispatched |-> NoRun ]

\* this.emit(type, ...) called by a handler: ws.send when open, then the local
\* listeners of the event
emitIn(c, type) ==
  [c EXCEPT !.sent = IF c.open THEN Append(@, type) ELSE @,
            !.dispatched = forEach(EventListeners(listeners, type), 1, @)]

\* stopPing
stopPing(c) ==
  IF c.pingInterval # 0
    THEN [c EXCEPT !.intervals = @ \ {c.pingInterval}, !.pingInterval = 0]
    ELSE c

\* A bug: the exhaustion of the attempts is not reported
handleReconnect_Silent(c) ==
  IF c.reconnectAttempts < maxReconnectAttempts
    THEN LET attempt == c.reconnectAttempts + 1
             delay == reconnectDelay * 2 ^ (attempt - 1)
         IN [c EXCEPT !.reconnectAttempts = attempt,
                      !.reconnectTimers = Append(@, [remaining |-> delay]),
                      !.connLog.scheduled =
                         Append(@, [attempt |-> attempt, delay |-> delay])]
    ELSE c

\* handleReconnect
handleReconnect(c) ==
  IF c.reconnectAttempts < maxReconnectAttempts
    THEN LET attempt == c.reconnectAttempts + 1
             delay == reconnectDelay * 2 ^ (attempt - 1)
         IN [c EXCEPT !.reconnectAttempts = attempt,
                      !.reconnectTimers = Append(@, [remaining |-> delay]),
                      !.connLog.scheduled =
                         Append(@, [attempt |-> attempt, delay |-> delay])]
    ELSE emitIn([c EXCEPT !.connLog.maxErrors = @ + 1], "error")

\* ws.onerror: emits the WEBSOCKET_ERROR event and rejects the promise of the
\* connect() call; the rejection of a pending promise of a connect() made by
\* handleReconnect runs its catch callback, handleReconnect
onerror(c) ==
  LET emitted == [emitIn(c, "error") EXCEPT
                    !.promise = IF @ = "pending" THEN "rejected" ELSE @]
  IN IF c.promise = "pending" /\ c.origin = "reconnect"
       THEN handleReconnect(emitted) ELSE emitted

\* ws.onclose with event.code = code
onclose(c, code) ==
  LET stopped == stopPing([c EXCEPT !.isConnected = FALSE])
  IN IF code # NormalClosure THEN handleReconnect(stopped) ELSE stopped

\* The handlers of socket s have left the client as c
Handled(s, c, op) ==
  \E h \in {c} :
    /\ sockets' = [sockets EXCEPT ![s] = "CLOSED"]
    /\ isConnected' = h.isConnected
    /\ reconnectAttempts' = h.reconnectAttempts
    /\ pingInterval' = h.pingInterval
    /\ intervals' = h.intervals
    /\ reconnectTimers' = h.reconnectTimers
    /\ connLog' = h.connLog
    /\ conns' = [conns EXCEPT ![s].promise = h.promise]
    /\ last' = [ op |-> op, type |-> "", userId |-> "", sent |-> h.sent ]
    /\ dispatched' = h.dispatched
    /\ UNCHANGED << ws, cacheVars, typingVars, serverVars, registryVars,
                    channelVars >>

\* The connection of socket s fails: while connecting, while open, or after
\* close() was called on it.  The socket is closed, and one task of the event
\* loop fires its error event and then its close event, with a code other than
\* 1000.
TransportFail(s, code) ==
  /\ sockets[s] \in {"CONNECTING", "OPEN", "CLOSING"}
  /\ code # NormalClosure
  /\ Handled(s, onclose(onerror(HandlerState(s)), code), "onerror")

\* The connection of socket s, which has been open, ends with a closing
\* handshake: the close event fires with the code of the close frame
TransportClose(s, code) ==
  /\ sockets[s] \in {"OPEN", "CLOSING"}
  /\ conns[s].opened
  /\ Handled(s, onclose(HandlerState(s), code), "onclose")

\* disconnect() called by the application: ws.close(1000) starts the closing of
\* a socket that is connecting or open
disconnect ==
  /\ connLog.disconnects < MaxDisconnects
  /\ sockets' = IF ws # 0 /\ sockets[ws] \in {"CONNECTING", "OPEN"}
                  THEN [sockets EXCEPT ![ws] = "CLOSING"] ELSE sockets
  /\ ws' = 0
  /\ pingInterval' = 0
  /\ intervals' = IF pingInterval # 0 THEN intervals \ {pingInterval} ELSE intervals
  /\ connLog' = [connLog EXCEPT !.disconnects = @ + 1,
                                !.retryAtDisconnect = @ \/ reconnectTimers # << >>]
  /\ last' = [ op |-> "disconnect", type |-> "", userId |-> "",
               sent |-> IF ws # 0 THEN << "close" >> ELSE << >> ]
  /\ UNCHANGED << isConnected, reconnectAttempts, conns, reconnectTimers,
                  cacheVars, typingVars, serverVars >>
  /\ NoDispatch
  /\ UNCHANGED << registryVars, channelVars >>

(***************************************************************************)
(* Inbound frames: ws.onmessage -> handleMessage                           *)
(***************************************************************************)

\* The server broadcasts a message under id: a new message of another user, or
\* a frame it delivers again (delivery is at least once)
DeliverMessageReceive(id, channelId, content) ==
  /\ SomeOpen
  /\ nReceived < MaxReceives
  /\ nReceived' = nReceived + 1
  /\ usedIds' = usedIds \cup {id}
  /\ handleMessage("message:receive",
                   [message |-> ServerMessage(id, "u1", channelId, content)])
  /\ UNCHANGED awaitingEcho

\* The server echoes the oldest message:send it holds, under an id it has not
\* used before
ServerEcho(id) ==
  /\ SomeOpen
  /\ awaitingEcho # << >>
  /\ id \notin usedIds
  /\ nReceived < MaxReceives
  /\ nReceived' = nReceived + 1
  /\ usedIds' = usedIds \cup {id}
  /\ awaitingEcho' = Tail(awaitingEcho)
  /\ LET m == Head(awaitingEcho)
     IN handleMessage("message:receive",
                      [message |-> ServerMessage(id, m.senderId, m.channelId, m.content)])

DeliverMessageEdit(messageId, content) ==
  /\ SomeOpen
  /\ handleMessage("message:edit", [messageId |-> messageId, content |-> content])
  /\ UNCHANGED serverVars

DeliverMessageDelete(messageId, channelId) ==
  /\ SomeOpen
  /\ handleMessage("message:delete", [messageId |-> messageId, channelId |-> channelId])
  /\ UNCHANGED serverVars

DeliverReactionAdd(messageId, emoji, userId) ==
  /\ SomeOpen
  /\ handleMessage("message:reaction:add",
                   [messageId |-> messageId, emoji |-> emoji, userId |-> userId])
  /\ UNCHANGED serverVars

DeliverReactionRemove(messageId, emoji, userId) ==
  /\ SomeOpen
  /\ handleMessage("message:reaction:remove",
                   [messageId |-> messageId, emoji |-> emoji, userId |-> userId])
  /\ UNCHANGED serverVars

DeliverTypingStart(userId, channelId) ==
  /\ SomeOpen
  /\ userId # currentUserId => Len(timers) < MaxTimers
  /\ handleMessage("typing:start", [userId |-> userId, channelId |-> channelId])
  /\ UNCHANGED serverVars

DeliverTypingStop(userId, channelId) ==
  /\ SomeOpen
  /\ handleMessage("typing:stop", [userId |-> userId, channelId |-> channelId])
  /\ UNCHANGED serverVars

(***************************************************************************)
(* MessageService: the operations of the local user                        *)
(***************************************************************************)

\* A bug: the message is also cached at once, before the server assigns its id
sendMessage_Optimistic(channelId, content) ==
  /\ WsOpen => Len(awaitingEcho) < MaxInFlight
  /\ last' = [ op |-> "emit", type |-> "message:send", userId |-> "",
               sent |-> IF WsOpen THEN << "message:send" >> ELSE << >> ]
  /\ awaitingEcho' = IF WsOpen THEN Append(awaitingEcho, NewMessage(channelId, content))
                     ELSE awaitingEcho
  /\ messageCache' = addMessageToCache(messageCache,
                        ServerMessage(0, currentUserId, channelId, content))
  /\ UNCHANGED << connVars, usedIds, nReceived, appendRun, typingVars >>
  /\ NoDispatch
  /\ UNCHANGED << registryVars, channelVars >>

sendMessage(channelId, content) ==
  /\ WsOpen => Len(awaitingEcho) < MaxInFlight
  /\ emit("message:send", [message |-> NewMessage(channelId, content)])
  /\ UNCHANGED currentChannelId

editMessage(messageId, newContent) ==
  /\ emit("message:edit", [messageId |-> messageId, content |-> newContent])
  /\ UNCHANGED currentChannelId

deleteMessage(messageId, channelId) ==
  /\ emit("message:delete", [messageId |-> messageId, channelId |-> channelId])
  /\ UNCHANGED currentChannelId

addReaction(messageId, emoji) ==
  /\ emit("message:reaction:add",
          [messageId |-> messageId, emoji |-> emoji, userId |-> currentUserId])
  /\ UNCHANGED currentChannelId

removeReaction(messageId, emoji) ==
  /\ emit("message:reaction:remove",
          [messageId |-> messageId, emoji |-> emoji, userId |-> currentUserId])
  /\ UNCHANGED currentChannelId

startTyping(channelId) ==
  /\ emit("typing:start", [userId |-> currentUserId, channelId |-> channelId])
  /\ UNCHANGED currentChannelId

stopTyping(channelId) ==
  /\ emit("typing:stop", [userId |-> currentUserId, channelId |-> channelId])
  /\ UNCHANGED currentChannelId

\* ChatApplication.updateStatus; currentUser.status, which nothing reads, is
\* not part of the state
updateStatus(status) ==
  /\ emit("user:status:change", [userId |-> currentUserId, status |-> status])
  /\ UNCHANGED currentChannelId

DeliverStatusChange(userId, status) ==
  /\ SomeOpen
  /\ handleMessage("user:status:change", [userId |-> userId, status |-> status])
  /\ UNCHANGED serverVars

DeliverConnected ==
  /\ SomeOpen
  /\ handleMessage("connected", [user |-> currentUserId])
  /\ UNCHANGED serverVars

(***************************************************************************)
(* ChatWebSocketClient.on and the function it returns                      *)
(***************************************************************************)

\* on(event, listener) called by the application, which keeps the function
\* on() returns
on(event, listener) ==
  /\ Len(registrations) < MaxRegistrations
  /\ listeners' = Registered(listeners, event, listener)
  /\ registrations' = Append(registrations,
                             [ event |-> event, listener |-> listener,
                               called |-> FALSE ])
  /\ last' = [ op |-> "on", type |-> event, userId |-> "", sent |-> << >> ]
  /\ NoDispatch
  /\ UNCHANGED << connVars, cacheVars, typingVars, serverVars, channelVars >>

\* The application calls the function the i-th call of on() returned:
\* () => this.off(event, listener)
unsubscribe(i) ==
  /\ listeners' = off(listeners, registrations[i].event, registrations[i].listener)
  /\ registrations' = [registrations EXCEPT ![i].called = TRUE]
  /\ last' = [ op |-> "unsubscribe", type |-> registrations[i].event,
               userId |-> "", sent |-> << >> ]
  /\ NoDispatch
  /\ UNCHANGED << connVars, cacheVars, typingVars, serverVars, channelVars >>

(***************************************************************************)
(* ChannelService: the operations of the local user, and inbound frames    *)
(***************************************************************************)

\* The Channel createChannel builds, under the id generateId() returned; the
\* fields no modelled handler reads or writes are left out
NewChannel(id, name) ==
  [ id |-> id, name |-> name, memberIds |-> << >>, updatedAt |-> NewDate ]

createChannel(id, name) ==
  /\ emit("channel:create", [channel |-> NewChannel(id, name)])
  /\ UNCHANGED currentChannelId

joinChannel(channelId) ==
  /\ emit("channel:join", [channelId |-> channelId, userId |-> NoUser])
  /\ currentChannelId' = channelId

leaveChannel(channelId) ==
  /\ emit("channel:leave", [channelId |-> channelId, userId |-> NoUser])
  /\ currentChannelId' = IF currentChannelId = channelId THEN "" ELSE currentChannelId

\* The member lists of the channels the server broadcasts: no user twice
MemberLists == { << >>, << "u1" >>, << "u1", "me" >> }

\* The changes of a channel:update frame
Changes == { "name" :> "renamed", "memberIds" :> << "u1" >> }

DeliverChannelCreate(id, memberIds) ==
  /\ SomeOpen
  /\ handleMessage("channel:create",
                   [channel |-> [NewChannel(id, "general") EXCEPT
                                   !.memberIds = memberIds]])
  /\ UNCHANGED serverVars

DeliverChannelUpdate(channelId, changes) ==
  /\ SomeOpen
  /\ handleMessage("channel:update", [channelId |-> channelId, changes |-> changes])
  /\ UNCHANGED serverVars

DeliverChannelJoin(channelId, userId) ==
  /\ SomeOpen
  /\ handleMessage("channel:join", [channelId |-> channelId, userId |-> userId])
  /\ UNCHANGED serverVars

DeliverChannelLeave(channelId, userId) ==
  /\ SomeOpen
  /\ handleMessage("channel:leave", [channelId |-> channelId, userId |-> userId])
  /\ UNCHANGED serverVars

(***************************************************************************)
(* Timers                                                                  *)
(***************************************************************************)

\* The callback of the interval id of startPing runs: a ping frame is sent
\* when this.ws is open
PingFire(id) ==
  /\ id \in intervals
  /\ last' = [ op |-> "ping", type |-> "ping", userId |-> "",
               sent |-> IF WsOpen THEN << "ping" >> ELSE << >> ]
  /\ NoDispatch
  /\ UNCHANGED << connVars, cacheVars, typingVars, serverVars, registryVars,
                  channelVars >>

Due(t) == t.remaining <= 0

\* The index of the oldest due timeout, 0 when none is due
FirstDue ==
  IF \E i \in 1..Len(timers) : Due(timers[i])
    THEN CHOOSE i \in 1..Len(timers) :
           Due(timers[i]) /\ \A j \in 1..(i - 1) : ~Due(timers[j])
    ELSE 0

\* The index of the oldest due timeout of handleReconnect, 0 when none is due
FirstDueReconnect ==
  IF \E i \in 1..Len(reconnectTimers) : Due(reconnectTimers[i])
    THEN CHOOSE i \in 1..Len(reconnectTimers) :
           Due(reconnectTimers[i]) /\ \A j \in 1..(i - 1) : ~Due(reconnectTimers[j])
    ELSE 0

\* The callback of the oldest due timeout of handleReconnect runs: it emits the
\* reconnect event and calls connect(), which replaces this.ws
ReconnectTimerFire ==
  LET i == FirstDueReconnect
  IN /\ i # 0
     /\ reconnectTimers' = SubSeq(reconnectTimers, 1, i - 1)
                             \o SubSeq(reconnectTimers, i + 1, Len(reconnectTimers))
     /\ sockets' = Append(sockets, "CONNECTING")
     /\ ws' = Len(sockets) + 1
     /\ conns' = Append(conns, NewConn("reconnect"))
     /\ connLog' = [connLog EXCEPT !.made = @ + 1]
     /\ last' = [ op |-> "reconnect", type |-> "reconnect", userId |-> "",
                  sent |-> IF WsOpen THEN << "reconnect" >> ELSE << >> ]
     /\ dispatched' = forEach(EventListeners(listeners, "reconnect"), 1, NoRun)
     /\ UNCHANGED << isConnected, reconnectAttempts, pingInterval, intervals,
                     cacheVars, typingVars, serverVars, registryVars,
                     channelVars >>

\* The callback of the oldest due timeout runs: removeTypingUser(channelId, userId)
TimerFire ==
  LET i == FirstDue
  IN /\ i # 0
     /\ typingUsers' = removeTypingUser(typingUsers, timers[i].channelId, timers[i].userId)
     /\ timers' = SubSeq(timers, 1, i - 1) \o SubSeq(timers, i + 1, Len(timers))
     /\ last' = [ op |-> "timeout", type |-> "", userId |-> "", sent |-> << >> ]
     /\ NoDispatch
     /\ UNCHANGED << connVars, cacheVars, serverVars, startAge, registryVars,
                     channelVars >>

\* TickMs pass; a due timeout runs before the clock moves on
Tick ==
  /\ FirstDue = 0
  /\ FirstDueReconnect = 0
  /\ reconnectTimers' = [i \in 1..Len(reconnectTimers) |->
                           [reconnectTimers[i] EXCEPT !.remaining = @ - TickMs]]
  /\ timers' = [i \in 1..Len(timers) |->
                  [timers[i] EXCEPT !.remaining = @ - TickMs]]
  /\ startAge' = [p \in Pairs |->
                    IF startAge[p] < TypingTimeoutMs THEN startAge[p] + TickMs
                    ELSE startAge[p]]
  /\ last' = [ op |-> "tick", type |-> "", userId |-> "", sent |-> << >> ]
  /\ UNCHANGED << sockets, ws, isConnected, reconnectAttempts, pingInterval,
                  intervals, conns, connLog, cacheVars, serverVars, typingUsers >>
  /\ NoDispatch
  /\ UNCHANGED << registryVars, channelVars >>

(***************************************************************************)
(* Initial states and specifications                                       *)
(***************************************************************************)

\* The history of a channel that has been received up to the cap
OlderMessages(channelId) ==
  [i \in 1..CacheCap |-> OlderMessage(channelId, i)]

\* A message of channel c2 that the server broadcast under id 1
FirstMessage == ServerMessage(1, "u1", "c2", <<"h", "i">>)

\* The services and the registry of listeners after construction of the
\* ChatApplication
InitServices ==
  /\ typingUsers = << >>
  /\ timers = << >>
  /\ awaitingEcho = << >>
  /\ nReceived = 0
  /\ startAge = [p \in Pairs |-> TypingTimeoutMs]
  /\ listeners = ServiceListeners
  /\ registrations = << >>
  /\ channels = << >>
  /\ currentChannelId = ""
  /\ dispatched = NoRun

\* After construction of the ChatApplication
InitClient ==
  /\ sockets = << >>
  /\ ws = 0
  /\ isConnected = FALSE
  /\ reconnectAttempts = 0
  /\ pingInterval = 0
  /\ intervals = {}
  /\ conns = << >>
  /\ reconnectTimers = << >>
  /\ connLog = [ scheduled |-> << >>, made |-> 0, maxErrors |-> 0,
                 disconnects |-> 0, retryAtDisconnect |-> FALSE ]
  /\ last = [ op |-> "new", type |-> "", userId |-> "", sent |-> << >> ]
  /\ InitServices

\* The message cache is empty, or it holds a history of channel c1 that fills
\* it to the cap and one message of channel c2
Init ==
  /\ InitClient
  /\ \/ /\ messageCache = << >>
        /\ appendRun = [c \in Channels |-> << >>]
        /\ usedIds = {}
     \/ /\ messageCache = << [key |-> "c1", val |-> OlderMessages("c1")],
                             [key |-> "c2", val |-> << FirstMessage >>] >>
        /\ appendRun = [c \in Channels |->
                          IF c = "c1" THEN OlderMessages("c1") ELSE << FirstMessage >>]
        /\ usedIds = {FirstMessage.id}

CacheNext ==
  \/ ConnectOnce
  \/ \E s \in 1..Len(sockets) : OnOpen(s)
  \/ \E id \in MessageIds, c \in Channels, content \in Contents :
       DeliverMessageReceive(id, c, content)
  \/ \E id \in MessageIds, content \in Contents : DeliverMessageEdit(id, content)
  \/ \E id \in MessageIds, c \in Channels : DeliverMessageDelete(id, c)
  \/ \E id \in MessageIds, content \in Contents : editMessage(id, content)
  \/ \E id \in MessageIds, c \in Channels : deleteMessage(id, c)

\* The message cache under the events the MessageService listens to, inbound
\* or emitted by the local user
CacheSpec == Init /\ [][CacheNext]_vars

ReactionNext ==
  \/ CacheNext
  \/ \E id \in MessageIds, e \in Emojis, u \in Users : DeliverReactionAdd(id, e, u)
  \/ \E id \in MessageIds, e \in Emojis, u \in Users : DeliverReactionRemove(id, e, u)
  \/ \E id \in MessageIds, e \in Emojis : addReaction(id, e)
  \/ \E id \in MessageIds, e \in Emojis : removeReaction(id, e)

\* As CacheSpec, with the reaction events
ReactionSpec == Init /\ [][ReactionNext]_vars

SendNext ==
  \/ ConnectOnce
  \/ \E s \in 1..Len(sockets) : OnOpen(s)
  \/ \E c \in Channels, content \in Contents : sendMessage(c, content)
  \/ \E id \in MessageIds : ServerEcho(id)
  \/ \E id \in MessageIds, c \in Channels, content \in Contents :
       DeliverMessageReceive(id, c, content)

\* Sending a message and receiving the server's echo of it
SendSpec == Init /\ [][SendNext]_vars

TypingInit ==
  /\ InitClient
  /\ messageCache = << >>
  /\ appendRun = [c \in Channels |-> << >>]
  /\ usedIds = {}

TypingNext ==
  \/ ConnectOnce
  \/ \E s \in 1..Len(sockets) : OnOpen(s)
  \/ \E u \in Users, c \in Channels : DeliverTypingStart(u, c)
  \/ \E u \in Users, c \in Channels : DeliverTypingStop(u, c)
  \/ \E c \in Channels : startTyping(c)
  \/ \E c \in Channels : stopTyping(c)
  \/ TimerFire
  \/ Tick

\* Typing presence under inbound frames, the local user's operations and time
TypingSpec == TypingInit /\ [][TypingNext]_vars

\* As TypingSpec; the event loop runs every due timeout, and time passes
TypingLive == TypingSpec /\ WF_vars(TimerFire) /\ WF_vars(Tick)

\* No socket awaits the answer of the transport to its connection attempt or
\* to close()
Answered == \A s \in 1..Len(sockets) : sockets[s] \in {"OPEN", "CLOSED"}

ConnNext ==
  \/ Connect
  \/ disconnect
  \/ \E s \in 1..Len(sockets) : OnOpen(s)
  \/ \E s \in 1..Len(sockets), code \in CloseCodes : TransportFail(s, code)
  \/ \E s \in 1..Len(sockets), code \in CloseCodes : TransportClose(s, code)
  \/ ReconnectTimerFire
  \/ Answered /\ Tick

\* The connection under the calls of the application, the notifications of the
\* transport and time.  The transport answers a connection attempt and a
\* close() within one tick of the clock.
ConnSpec == TypingInit /\ [][ConnNext]_vars

\* The transport answers the connection attempt of some socket
TransportAnswers ==
  \E s \in 1..Len(sockets) :
    \/ OnOpen(s)
    \/ \E code \in CloseCodes : sockets[s] = "CONNECTING" /\ TransportFail(s, code)

RetryNext ==
  \/ ConnectOnce
  \/ \E s \in 1..Len(sockets) : OnOpen(s)
  \/ \E s \in 1..Len(sockets), code \in CloseCodes : TransportFail(s, code)
  \/ \E s \in 1..Len(sockets), code \in CloseCodes : TransportClose(s, code)
  \/ ReconnectTimerFire
  \/ Answered /\ Tick

\* The connection after the one connect() of the application, with no further
\* call of the application
RetrySpec == TypingInit /\ [][RetryNext]_vars

\* As RetrySpec; the event loop runs every due timeout, time passes, and the
\* transport answers every connection attempt, with open or with a failure
RetryLive ==
  /\ RetrySpec
  /\ WF_vars(ReconnectTimerFire)
  /\ WF_vars(Answered /\ Tick)
  /\ WF_vars(TransportAnswers)

TeardownNext ==
  \/ TypingNext
  \/ disconnect
  \/ \E s \in 1..Len(sockets), code \in CloseCodes : TransportClose(s, code)

\* Typing presence with the teardown of the connection by disconnect()
TeardownSpec == TypingInit /\ [][TeardownNext]_vars

EmitNext ==
  \/ RetryNext
  \/ \E status \in Statuses : updateStatus(status)

\* The application emits events while the connection is made, lost and
\* retried, with retries that open and retries that fail
EmitSpec == TypingInit /\ [][EmitNext]_vars

ListenNext ==
  \/ ConnectOnce
  \/ \E s \in {1} \cap (1..Len(sockets)) : OnOpen(s)
  \/ \E s \in 1..Len(sockets), code \in CloseCodes : TransportFail(s, code)
  \/ ReconnectTimerFire
  \/ Answered /\ Tick
  \/ \E l \in AppListeners : on("user:status:change", l)
  \/ \E status \in Statuses : updateStatus(status)

\* The application registers listeners and emits events while the connection
\* is made and lost and every retry fails
ListenSpec == TypingInit /\ [][ListenNext]_vars

DispatchNext ==
  \/ ConnectOnce
  \/ \E s \in 1..Len(sockets) : OnOpen(s)
  \/ \E e \in AppEvents, l \in AppListeners : on(e, l)
  \/ \E i \in 1..Len(registrations) : unsubscribe(i)
  \/ \E status \in Statuses : updateStatus(status)
  \/ \E u \in RemoteUsers, status \in Statuses : DeliverStatusChange(u, status)
  \/ DeliverConnected

\* The registry of listeners under on(), the functions it returns, emit and
\* inbound frames
DispatchSpec == TypingInit /\ [][DispatchNext]_vars

ChannelNext ==
  \/ ConnectOnce
  \/ \E s \in 1..Len(sockets) : OnOpen(s)
  \/ \E c \in Channels, n \in ChannelNames : createChannel(c, n)
  \/ \E c \in Channels : joinChannel(c)
  \/ \E c \in Channels : leaveChannel(c)
  \/ \E c \in Channels, m \in MemberLists : DeliverChannelCreate(c, m)
  \/ \E c \in Channels, ch \in Changes : DeliverChannelUpdate(c, ch)
  \/ \E c \in Channels, u \in Users : DeliverChannelJoin(c, u)
  \/ \E c \in Channels, u \in Users : DeliverChannelLeave(c, u)

\* The channel registry under the operations of the local user and inbound
\* channel events
ChannelSpec == TypingInit /\ [][ChannelNext]_vars

\* The frames of InboundSpec are about one channel and one message
InboundChannels == {"c1"}

InboundIds == {1}

InboundContents == { <<"h", "i">> }

InboundNext ==
  \/ ConnectOnce
  \/ \E s \in 1..Len(sockets) : OnOpen(s)
  \/ \E id \in InboundIds, c \in InboundChannels, content \in InboundContents :
       DeliverMessageReceive(id, c, content)
  \/ \E id \in InboundIds, content \in Contents : DeliverMessageEdit(id, content)
  \/ \E id \in InboundIds, c \in InboundChannels : DeliverMessageDelete(id, c)
  \/ \E id \in InboundIds, e \in Emojis, u \in Users : DeliverReactionAdd(id, e, u)
  \/ \E id \in InboundIds, e \in Emojis, u \in Users : DeliverReactionRemove(id, e, u)
  \/ \E u \in Users, c \in InboundChannels : DeliverTypingStart(u, c)
  \/ \E u \in Users, c \in InboundChannels : DeliverTypingStop(u, c)
  \/ \E c \in InboundChannels, m \in MemberLists : DeliverChannelCreate(c, m)
  \/ \E c \in InboundChannels, ch \in Changes : DeliverChannelUpdate(c, ch)
  \/ \E c \in InboundChannels, u \in Users : DeliverChannelJoin(c, u)
  \/ \E c \in InboundChannels, u \in Users : DeliverChannelLeave(c, u)
  \/ \E u \in RemoteUsers, status \in Statuses : DeliverStatusChange(u, status)
  \/ DeliverConnected

\* The client under the frames the server sends, with the listeners of the
\* services registered
InboundSpec == TypingInit /\ [][InboundNext]_vars

HeartbeatNext ==
  \/ ConnNext
  \/ \E id \in intervals : PingFire(id)

\* createChatApp has awaited connect(): the first socket is open
ConnectedInit ==
  /\ sockets = << "OPEN" >>
  /\ ws = 1
  /\ isConnected = TRUE
  /\ reconnectAttempts = 0
  /\ pingInterval = 1
  /\ intervals = {1}
  /\ conns = << [ origin |-> "createChatApp", promise |-> "resolved",
                    opened |-> TRUE ] >>
  /\ reconnectTimers = << >>
  /\ connLog = [ scheduled |-> << >>, made |-> 0, maxErrors |-> 0,
                 disconnects |-> 0, retryAtDisconnect |-> FALSE ]
  /\ last = [ op |-> "onopen", type |-> "", userId |-> "", sent |-> << >> ]
  /\ InitServices
  /\ messageCache = << >>
  /\ appendRun = [c \in Channels |-> << >>]
  /\ usedIds = {}

\* The connection of a client that createChatApp has connected, under the
\* calls of the application, the notifications of the transport, time and the
\* heartbeat
HeartbeatSpec == ConnectedInit /\ [][HeartbeatNext]_vars

Next ==
  \/ ReactionNext \/ SendNext \/ TypingNext \/ ConnNext \/ TeardownNext
  \/ EmitNext \/ ListenNext \/ DispatchNext \/ ChannelNext \/ InboundNext
  \/ HeartbeatNext

Spec == Init /\ [][Next]_vars

(***************************************************************************)
(* Properties of the message cache                                         *)
(***************************************************************************)

\* Number of elements of s that satisfy Test
Count(s, Test(_)) == Len(SelectSeq(s, Test))

\* s is what is left of t after dropping elements from its head
IsSuffix(s, t) ==
  /\ Len(s) <= Len(t)
  /\ s = SubSeq(t, Len(t) - Len(s) + 1, Len(t))

\* C1: every channel's cached sequence holds at most 100 messages, whatever
\* message:receive, message:edit and message:delete events arrive; a
\* message:receive drops messages only from the head of the channel it appends
\* to and leaves the sequence of every other channel as it was.
C1_CacheBounded ==
  /\ [](\A c \in Channels : Len(getChannelMessages(c)) <= CacheCap)
  /\ [][\A id \in MessageIds, c \in Channels, content \in Contents :
          DeliverMessageReceive(id, c, content) =>
            /\ \A d \in Channels \ {c} :
                 MessagesIn(messageCache', d) = getChannelMessages(d)
            /\ IsSuffix(MessagesIn(messageCache', c),
                        Append(getChannelMessages(c),
                               ServerMessage(id, "u1", c, content)))]_vars

\* An append at the cap has evicted the oldest message of channel c1
C1_Witness ==
  /\ last.type = "message:receive"
  /\ Len(getChannelMessages("c1")) = CacheCap
  /\ getChannelMessages("c1")[1] = OlderMessage("c1", 2)
  /\ getChannelMessages("c2") = << FirstMessage >>

\* C2: after more than 100 appends to a channel with no edit or delete event in
\* between, getChannelMessages returns exactly the last 100 appended messages,
\* in the order they were appended.
C2_LastHundred ==
  \A c \in Channels :
    Len(appendRun[c]) > CacheCap =>
      getChannelMessages(c) =
        SubSeq(appendRun[c], Len(appendRun[c]) - CacheCap + 1, Len(appendRun[c]))

\* More than 100 messages have been appended to channel c1
C2_Witness ==
  /\ Len(appendRun["c1"]) > CacheCap
  /\ last.type = "message:receive"

\* C3: when the server's echo of a message M1 the local user sent arrives under
\* an id the server has not used before, the channel holds exactly one message
\* with that id and exactly one entry that stands for M1 (a message of the
\* local user with M1's content that no earlier broadcast accounts for).
C3_EchoOnce ==
  [][\A id \in MessageIds :
       ServerEcho(id) =>
         LET m        == Head(awaitingEcho)
             msgs     == MessagesIn(messageCache', m.channelId)
             HasId(e) == e.id = id
             IsM1(e)  == /\ e.senderId = currentUserId
                         /\ e.content = m.content
                         /\ e.id \notin usedIds
         IN /\ Count(msgs, HasId) = 1
            /\ Count(msgs, IsM1) = 1]_vars

\* The echo of a message the local user sent has been cached
C3_Witness ==
  /\ last.op = "handleMessage"
  /\ last.type = "message:receive"
  /\ \E c \in Channels : \E i \in 1..Len(getChannelMessages(c)) :
       /\ getChannelMessages(c)[i].senderId = currentUserId
       /\ getChannelMessages(c)[i].id \in MessageIds

\* The positions (channel, index) of the cache
Positions(cache) ==
  UNION { { << c, i >> : i \in 1..Len(MessagesIn(cache, c)) } : c \in Channels }

\* C4: appending is an idempotent upsert by id, so no two messages of a
\* channel's cached sequence have the same id.
C4_UniqueIds ==
  \A c \in Channels :
    \A i, j \in 1..Len(getChannelMessages(c)) :
      getChannelMessages(c)[i].id = getChannelMessages(c)[j].id => i = j

\* C5: a message:edit event for messageId (inbound, or emitted by editMessage)
\* creates no entry and changes no length or order; it changes at most one
\* cached message, one with that id, which then carries the new content and a
\* non-null editedAt and is otherwise as before; when a message with that id is
\* cached, one is changed so, and when none is, the cache is unchanged.
C5_EditInPlace ==
  [][\A messageId \in MessageIds, content \in Contents :
       (DeliverMessageEdit(messageId, content) \/ editMessage(messageId, content)) =>
         LET old(c) == MessagesIn(messageCache, c)
             new(c) == MessagesIn(messageCache', c)
             Cached == \E c \in Channels : findIndex(old(c), messageId) # 0
             \* Position i of channel c holds the one message that changed
             EditedAt(c, i) ==
               /\ old(c)[i].id = messageId
               /\ new(c)[i].content = content
               /\ new(c)[i].editedAt # NoDate
               /\ new(c) = [old(c) EXCEPT
                              ![i] = [@ EXCEPT !.content = new(c)[i].content,
                                               !.editedAt = new(c)[i].editedAt]]
               /\ \A d \in Channels \ {c} : new(d) = old(d)
         IN /\ [e \in 1..Len(messageCache') |-> messageCache'[e].key]
                 = [e \in 1..Len(messageCache) |-> messageCache[e].key]
            /\ \A c \in Channels : Len(new(c)) = Len(old(c))
            /\ Cached => \E c \in Channels : \E i \in 1..Len(old(c)) : EditedAt(c, i)
            /\ ~Cached => messageCache' = messageCache]_vars

\* An edit has replaced a cached message that is not the only one of its channel
C5_Witness ==
  /\ last.type = "message:edit"
  /\ \E c \in Channels : \E i, j \in 1..Len(getChannelMessages(c)) :
       /\ i # j
       /\ getChannelMessages(c)[i].editedAt # NoDate
       /\ getChannelMessages(c)[j].editedAt = NoDate

\* C6: a message:delete event for (channelId, messageId) (inbound, or emitted
\* by deleteMessage) leaves in that channel exactly the messages with another
\* id, in their order; the sequence of every other channel is unchanged; when
\* the channel is untracked or holds no message with that id, the cache is
\* unchanged.
C6_DeleteFromChannel ==
  [][\A messageId \in MessageIds, channelId \in Channels :
       (DeliverMessageDelete(messageId, channelId) \/ deleteMessage(messageId, channelId)) =>
         LET before == MessagesIn(messageCache, channelId)
             after  == MessagesIn(messageCache', channelId)
             Other(m) == m.id # messageId
         IN /\ after = SelectSeq(before, Other)
            /\ \A d \in Channels \ {channelId} :
                 MessagesIn(messageCache', d) = MessagesIn(messageCache, d)
            /\ (~MapHas(messageCache, channelId) \/ Count(before, Other) = Len(before))
                 => messageCache' = messageCache]_vars

\* A delete has removed the first of the two messages of channel c2 and has
\* kept the one received after it
C6_Witness ==
  /\ last.type = "message:delete"
  /\ nReceived = 1
  /\ Len(getChannelMessages("c1")) = CacheCap
  /\ Len(getChannelMessages("c2")) = 1
  /\ getChannelMessages("c2")[1].id # FirstMessage.id

\* userIds of the reaction of message m for emoji, {} when there is none
ReactionUsers(m, emoji) ==
  UNION { { m.reactions[r].userIds[k] : k \in 1..Len(m.reactions[r].userIds) } :
            r \in { x \in 1..Len(m.reactions) : m.reactions[x].emoji = emoji } }

\* C7: the mentions of every cached message are those of its current content,
\* and after a message:reaction:add (message:reaction:remove) for a cached
\* message the user is (is not) among the users of that emoji on the message.
C7_MentionsAndReactions ==
  /\ [](\A c \in Channels : \A i \in 1..Len(getChannelMessages(c)) :
          getChannelMessages(c)[i].mentions
            = extractMentions(getChannelMessages(c)[i].content))
  /\ [][\A messageId \in MessageIds, emoji \in Emojis, userId \in Users :
          /\ (DeliverReactionAdd(messageId, emoji, userId)
                \/ (userId = currentUserId /\ addReaction(messageId, emoji))) =>
               \A p \in Positions(messageCache') :
                 MessagesIn(messageCache', p[1])[p[2]].id = messageId =>
                   userId \in ReactionUsers(MessagesIn(messageCache', p[1])[p[2]], emoji)
          /\ (DeliverReactionRemove(messageId, emoji, userId)
                \/ (userId = currentUserId /\ removeReaction(messageId, emoji))) =>
               \A p \in Positions(messageCache') :
                 MessagesIn(messageCache', p[1])[p[2]].id = messageId =>
                   userId \notin ReactionUsers(MessagesIn(messageCache', p[1])[p[2]], emoji)]_vars

(***************************************************************************)
(* Properties of typing presence                                           *)
(***************************************************************************)

\* C8: getTypingUsers never contains the local user's id, whether typing:start
\* for the local user is emitted by startTyping or delivered by the transport.
C8_NoSelfTyping ==
  \A c \in Channels : currentUserId \notin getTypingUsers(c)

\* A typing:start for the local user has been delivered by the transport while
\* another user is shown typing
C8_Witness ==
  /\ last.op = "handleMessage"
  /\ last.type = "typing:start"
  /\ last.userId = currentUserId
  /\ \E c \in Channels : getTypingUsers(c) # {}

\* C9: a remote user shown typing in a channel, some time after the last
\* typing:start for the pair, is eventually removed from getTypingUsers unless
\* a new typing:start for the pair arrives.
C9_Expires ==
  \A p \in Pairs :
    (p[2] \in getTypingUsers(p[1]) /\ startAge[p] > 0)
      ~> (p[2] \notin getTypingUsers(p[1]) \/ startAge[p] = 0)

\* The expiry of a typing:start has removed the user, the timeout after it
C9_Witness ==
  /\ last.op = "timeout"
  /\ timers = << >>
  /\ \E p \in Pairs :
       /\ MapHas(typingUsers, p[1])
       /\ p[2] \notin getTypingUsers(p[1])
       /\ startAge[p] = TypingTimeoutMs

\* C10: a remote user stays in getTypingUsers until 3 seconds have passed since
\* the last typing:start for the pair (with no typing:stop after it).
C10_RefreshRestarts ==
  \A p \in Pairs :
    startAge[p] < TypingTimeoutMs => p[2] \in getTypingUsers(p[1])

\* C11: typing:stop for a pair cancels the pending expiry of the pair: no
\* timeout scheduled by a typing:start that preceded a typing:stop for the
\* pair fires and removes the user from getTypingUsers.
C11_StopCancelsExpiry ==
  [][\A p \in Pairs :
       (/\ last'.op = "timeout"
        /\ p[2] \in getTypingUsers(p[1])
        /\ p[2] \notin MapGet(typingUsers', p[1]))
         => ~timers[FirstDue].stopped]_vars

(***************************************************************************)
(* Properties of the connection                                            *)
(***************************************************************************)

\* A retry is scheduled, or a connection attempt of handleReconnect awaits its
\* answer
RetryPending ==
  \/ reconnectTimers # << >>
  \/ \E s \in 1..Len(sockets) :
       conns[s].origin = "reconnect" /\ sockets[s] = "CONNECTING"

\* The connection state of the specification, read off the client
ConnectionState ==
  IF isConnected THEN "Connected"
  ELSE IF RetryPending THEN "Reconnecting"
  ELSE IF \E s \in 1..Len(sockets) : sockets[s] = "CONNECTING" THEN "Connecting"
  ELSE IF connLog.maxErrors > 0 THEN "Failed"
  ELSE "Disconnected"

\* The transitions of the specification, with the failure of a connect()
Transitions ==
  { << "Disconnected", "Connecting" >>, << "Connecting", "Connected" >>,
    << "Connecting", "Disconnected" >>, << "Connected", "Reconnecting" >>,
    << "Reconnecting", "Connected" >>, << "Reconnecting", "Failed" >> }

\* C12: the connection state changes only along Disconnected -> Connecting ->
\* Connected and Connected -> Reconnecting -> (Connected | Failed), a failed
\* connect() returning to Disconnected; only disconnect() goes to Disconnected
\* from any state.  In particular Reconnecting is entered from Connected only.
C12_StateMachine ==
  [][ConnectionState' # ConnectionState =>
       \/ << ConnectionState, ConnectionState' >> \in Transitions
       \/ last'.op = "disconnect" /\ ConnectionState' = "Disconnected"]_vars

\* C13: when the transport reports open for a socket, of connect() called by
\* the application or by handleReconnect, the client is connected, the attempt
\* counter is 0, the heartbeat interval is running and the promise of that
\* connect() is resolved.
C13_OpenConnects ==
  [][\A s \in 1..Len(sockets) :
       (sockets[s] = "CONNECTING" /\ sockets'[s] = "OPEN")
         => /\ isConnected'
            /\ reconnectAttempts' = 0
            /\ pingInterval' # 0
            /\ pingInterval' \in intervals'
            /\ conns'[s].promise = "resolved"]_vars

\* A connection attempt made by handleReconnect has opened
C13_Witness ==
  /\ last.op = "onopen"
  /\ WsOpen
  /\ conns[ws].origin = "reconnect"
  /\ isConnected
  /\ reconnectAttempts = 0

\* C14: when the first connect() of the application fails before open, its
\* promise is rejected and the client stays disconnected: the attempt counter
\* is unchanged and no reconnect is scheduled, also when the close event with
\* a code other than 1000 follows the error event.
C14_FailedConnectStaysDisconnected ==
  [][(/\ Len(sockets) = 1
      /\ ws = 1
      /\ sockets[1] = "CONNECTING"
      /\ sockets'[1] = "CLOSED")
       => /\ conns'[1].promise = "rejected"
          /\ ~isConnected'
          /\ reconnectAttempts' = reconnectAttempts
          /\ reconnectTimers' = << >>]_vars

\* C15: when disconnect() returns, getConnectionStatus().connected is false
\* and the heartbeat is stopped.
C15_DisconnectDisconnects ==
  last.op = "disconnect" => (~isConnected /\ pingInterval = 0 /\ intervals = {})

\* C16: after disconnect() was called with a reconnect retry scheduled, and
\* with no connect() of the application since, no timeout of handleReconnect
\* emits the reconnect event and starts a connection attempt.
C16_DisconnectCancelsRetry ==
  connLog.retryAtDisconnect => last.op # "reconnect"

\* C17: when disconnect() returns no timer is outstanding: no heartbeat
\* interval, no reconnect timeout and no typing timeout.
C17_NoTimersAfterDisconnect ==
  last.op = "disconnect" =>
    (intervals = {} /\ reconnectTimers = << >> /\ timers = << >>)

\* The delays of the specification, in milliseconds
BackoffDelays == << 1000, 2000, 4000, 8000, 16000 >>

\* Nothing is pending: no retry is scheduled and no socket awaits the transport
Quiescent == reconnectTimers = << >> /\ Answered

\* C18: since the client was last connected at most 5 retries are scheduled,
\* the k-th with the attempt counter at k and a delay of 1s * 2^(k-1), and at
\* most 5 connection attempts are made; once nothing is pending with the client
\* not connected after a retry, exactly 5 attempts have been made and the
\* state is Failed.
C18_Backoff ==
  /\ Len(connLog.scheduled) <= Len(BackoffDelays)
  /\ \A k \in 1..Len(connLog.scheduled) :
       connLog.scheduled[k] = [attempt |-> k, delay |-> BackoffDelays[k]]
  /\ reconnectAttempts = Len(connLog.scheduled)
  /\ connLog.made <= Len(BackoffDelays)
  /\ (Quiescent /\ ~isConnected /\ connLog.scheduled # << >>)
       => /\ connLog.made = Len(BackoffDelays)
          /\ ConnectionState = "Failed"

\* C19: the MAX_RECONNECT_ATTEMPTS error is emitted once, and after it no
\* timeout of handleReconnect makes a connection attempt.
C19_TerminalErrorOnce ==
  [][/\ connLog'.maxErrors <= 1
     /\ connLog.maxErrors >= 1 => last'.op # "reconnect"]_vars

\* C20: a client in Reconnecting is eventually Connected or Failed, or
\* Disconnected after disconnect().
C20_RetriesResolve ==
  (ConnectionState = "Reconnecting")
    ~> \/ ConnectionState \in {"Connected", "Failed"}
       \/ ConnectionState = "Disconnected" /\ connLog.disconnects > 0

\* The retries of a client have ended in Failed
C20_Witness ==
  /\ ConnectionState = "Failed"
  /\ connLog.made = 5
  /\ last.op = "onerror"

(***************************************************************************)
(* Properties of the dispatcher                                            *)
(***************************************************************************)

\* The events of the frames the operations of the application emit
IntentEvents ==
  { "message:send", "message:edit", "message:delete", "message:reaction:add",
    "message:reaction:remove", "typing:start", "typing:stop", "channel:create",
    "channel:join", "channel:leave", "user:status:change" }

\* C21: emit(event, data) passes exactly one frame, of that event, to the
\* transport when this.ws is open at the time of the call and none otherwise;
\* no other step (an open of a socket, a retry, a close) passes a frame of the
\* application to the transport, so a frame emitted while the transport is
\* not open is never sent later.
C21_SendsIffOpen ==
  [][/\ last'.op = "emit" =>
          last'.sent = IF WsOpen THEN << last'.type >> ELSE << >>
     /\ last'.op # "emit" =>
          \A i \in 1..Len(last'.sent) : last'.sent[i] \notin IntentEvents]_vars

\* An emit of the application was dropped while a retry was pending, after
\* the connection had been open
C21_Witness ==
  /\ last.op = "emit"
  /\ last.sent = << >>
  /\ Opened # {}
  /\ reconnectTimers # << >>

\* The listeners of the calls on(event, ...) among calls, in the order of the
\* calls, each listener once
RECURSIVE InOrderOfCalls(_, _)
InOrderOfCalls(calls, event) ==
  IF calls = << >> THEN << >>
  ELSE LET before == InOrderOfCalls(SubSeq(calls, 1, Len(calls) - 1), event)
           call == calls[Len(calls)]
       IN IF call.event = event /\ ~includes(before, call.listener)
            THEN Append(before, call.listener) ELSE before

\* C22: in every connection state, emit(event, data) invokes the listeners
\* registered for the event, each once, in the order they were registered
\* (the listener of the services first), and no listener of another event.
C22_EmitInvokesRegistered ==
  [][last'.op = "emit" =>
       dispatched'.invoked
         = EventListeners(ServiceListeners, last'.type)
             \o InOrderOfCalls(registrations, last'.type)]_vars

\* An emit has invoked two listeners of the application, the thrower first,
\* with the retries of the client exhausted
C22_Witness ==
  /\ last.op = "emit"
  /\ dispatched.invoked = << "L2", "L1" >>
  /\ connLog.maxErrors > 0
  /\ ~isConnected

\* C23: when a listener raises during emit or during the delivery of an
\* inbound frame, every listener registered after it for the event is still
\* invoked, the error is passed to console.error, and no error reaches the
\* caller of emit or of handleMessage.
C23_ListenerErrorsCaught ==
  [][last'.op \in {"emit", "handleMessage"} =>
       LET set == EventListeners(listeners, last'.type)
       IN /\ ~dispatched'.thrown
          /\ \A k \in 1..Len(set) :
               set[k] \in Throwing =>
                 /\ includes(dispatched'.reported, set[k])
                 /\ \A j \in (k + 1)..Len(set) :
                      includes(dispatched'.invoked, set[j])]_vars

\* An inbound frame was delivered to a listener that throws and to the one
\* registered after it
C23_Witness ==
  /\ last.op = "handleMessage"
  /\ dispatched.invoked = << "logConnected", "L2", "L1" >>
  /\ dispatched.reported = << "L2" >>

\* C24: handleMessage notifies the local listeners and passes no frame to the
\* transport: with the listeners of the services registered no inbound frame
\* causes an outbound frame.
C24_InboundSendsNothing ==
  [][last'.op = "handleMessage" =>
       (last'.sent = << >> /\ awaitingEcho' = awaitingEcho)]_vars

\* An inbound typing:start has been handled by the listener of the
\* MessageService with the socket open
C24_Witness ==
  /\ last.op = "handleMessage"
  /\ last.type = "typing:start"
  /\ dispatched.invoked = << "onTypingStart" >>
  /\ WsOpen
  /\ timers # << >>

\* C25: the function returned by on(event, listener) removes the registration
\* of its call only: the registrations of other calls whose function has not
\* been called, also of the same listener, stay in the registry, the listener
\* is removed when no such registration of it is left, and a second call of
\* the function changes nothing.
C25_UnsubscribeExact ==
  [][\A i \in 1..Len(registrations) :
       unsubscribe(i) =>
         LET Held(map, r) == includes(EventListeners(map, r.event), r.listener)
             Others == { j \in 1..Len(registrations) \ {i} :
                           ~registrations[j].called }
         IN /\ registrations[i].called => listeners' = listeners
            /\ \A j \in Others :
                 Held(listeners, registrations[j]) => Held(listeners', registrations[j])
            /\ (\A j \in Others :
                   << registrations[j].event, registrations[j].listener >>
                     # << registrations[i].event, registrations[i].listener >>)
                 => ~Held(listeners', registrations[i])]_vars

(***************************************************************************)
(* Properties of the channel registry                                      *)
(***************************************************************************)

NoDuplicates(array) ==
  \A i, j \in 1..Len(array) : array[i] = array[j] => i = j

\* memberIds of channel c, << >> when the registry does not hold c
MemberIds(map, c) == IF MapHas(map, c) THEN MapGet(map, c).memberIds ELSE << >>

\* C26: no channel's memberIds holds a user id twice; a channel:join (inbound,
\* or emitted by joinChannel) for a user already in the channel and a
\* channel:leave for a user not in it leave memberIds unchanged; a
\* channel:join or channel:leave for a channel the registry does not hold
\* changes no state of the services, and an inbound one leaves
\* currentChannelId as it is.
C26_MembersUnique ==
  /\ [](\A e \in 1..Len(channels) : NoDuplicates(channels[e].val.memberIds))
  /\ [][\A c \in Channels, u \in Users \cup {NoUser} :
          LET Join  == DeliverChannelJoin(c, u) \/ (u = NoUser /\ joinChannel(c))
              Leave == DeliverChannelLeave(c, u) \/ (u = NoUser /\ leaveChannel(c))
          IN /\ (Join /\ includes(MemberIds(channels, c), u)) =>
                  MemberIds(channels', c) = MemberIds(channels, c)
             /\ (Leave /\ ~includes(MemberIds(channels, c), u)) =>
                  MemberIds(channels', c) = MemberIds(channels, c)
             /\ ((Join \/ Leave) /\ ~MapHas(channels, c)) =>
                  /\ channels' = channels
                  /\ UNCHANGED << cacheVars, typingVars, registryVars >>
             /\ ((DeliverChannelJoin(c, u) \/ DeliverChannelLeave(c, u))
                   /\ ~MapHas(channels, c)) =>
                  currentChannelId' = currentChannelId]_vars

\* A channel:join has arrived for a user who was a member of the channel
C26_Witness ==
  /\ last.op = "handleMessage"
  /\ last.type = "channel:join"
  /\ last.userId = "u1"
  /\ MemberIds(channels, "c1") = << NoUser, "u1", "me" >>

(***************************************************************************)
(* Properties of the connection attempts, the timers and the heartbeat     *)
(***************************************************************************)

\* The sockets whose connection attempt awaits its open or its failure
InFlight == { s \in 1..Len(sockets) : sockets[s] = "CONNECTING" }

\* C27: at most one connection attempt is in flight and at most one reconnect
\* timeout is pending, and no reconnect timeout is pending while an attempt is
\* in flight, also when the transport reports a failed attempt as an error
\* event followed by a close event with a code other than 1000.
C27_OneAttemptInFlight ==
  /\ Cardinality(InFlight) <= 1
  /\ Len(reconnectTimers) <= 1
  /\ reconnectTimers # << >> => InFlight = {}

\* The pending expiry timeouts of the pair p
TimersOf(p) ==
  { i \in 1..Len(timers) : << timers[i].channelId, timers[i].userId >> = p }

\* C28: at most one expiry timeout is pending for each (channelId, userId)
\* pair; a typing:start received while a timeout of the pair is pending
\* replaces that timeout.
C28_OneTimerPerPair ==
  \A p \in Pairs : Cardinality(TimersOf(p)) <= 1

\* C29: a heartbeat interval is running exactly while the client is
\* Connected, and never more than one; a ping frame is sent only while the
\* client is Connected.  Connected is read off the connected flag or off the
\* state of this.ws: an interval runs only when one of them says connected,
\* and one runs when both do.
C29_OneHeartbeatWhileConnected ==
  /\ Cardinality(intervals) <= 1
  /\ intervals # {} => (isConnected \/ WsOpen)
  /\ (isConnected /\ WsOpen) => intervals # {}
  /\ (last.op = "ping" /\ last.sent # << >>) => (isConnected \/ WsOpen)

\* C30: getConnectionStatus().connected is true only when this.ws is an open
\* socket, and a notification of a socket other than this.ws (released by
\* disconnect(), or replaced by a later connect()) changes neither the
\* connected flag nor the heartbeat nor the reconnect schedule.
C30_StaleSocketsIgnored ==
  /\ [](isConnected => WsOpen)
  /\ [][\A s \in 1..Len(sockets) :
          (s # ws /\ sockets'[s] # sockets[s]) =>
            UNCHANGED << isConnected, pingInterval, intervals,
                         reconnectAttempts, reconnectTimers >>]_vars

====
